---- MODULE Spec2Model ----
(***************************************************************************)
(* gstage4: the staged build pipeline (Builder and its Action decorator)   *)
(* over the versioned working directory (WorkDir).                         *)
(*                                                                         *)
(* The store root is modelled as a directory listing: every name the code  *)
(* can create in it is mapped to "none", "dir" or "file".  Python values   *)
(* that the code compares (the tuple of declared steps, the list returned  *)
(* by sorted()) keep their type, because == on them depends on it.         *)
(* assert statements are executed (the interpreter is run as the shebang   *)
(* line runs it, without -O); a failing assert raises AssertionError and   *)
(* the statements after it are not executed.                               *)
(***************************************************************************)
EXTENDS Integers, Sequences, FiniteSets, TLC

VARIABLES
    rollback,   \* WorkDir._rollback, fixed at construction of the WorkDir
    root,       \* what is at WorkDir._path: absent, a good directory, or a bad one
    dirs,       \* listing of the store root: name -> "none" | "dir" | "file"
    trees,      \* what each directory of the store root holds: name -> set of files
    progress,   \* Builder._progress of the live Builder; NoBuilder when there is none
    sealed,     \* history: views sealed by actions of the live Builder
    last,       \* history: the last call made, its inputs and how it ended
    pre,        \* history: progress, listing and last call at the start of that call
    chrooter,   \* the WorkDirChrooter / _Chrooter object and the mounts below the chroot directory
    call,       \* history: the last call made on the chrooter, its inputs and how it ended
    calc        \* a derivation of the Builder: its name, its inputs and its output

vars == <<rollback, root, dirs, trees, progress, sealed, last, pre, chrooter, call,
          calc>>

-----------------------------------------------------------------------------
(* BuildProgress (enum.IntEnum, enum.auto() numbers the members from 1) *)

STEP_INIT == 1
STEP_UNPACKED == 2
STEP_REPOSITORIES_INITIALIZED == 3
STEP_CONFDIR_INITIALIZED == 4
STEP_WORLD_SET_UPDATED == 5
STEP_KERNEL_INSTALLED == 6
STEP_SYSTEM_CONFIGURED == 7
STEP_CLEANED_UP == 8

BuildProgress == STEP_INIT .. STEP_CLEANED_UP

StepName(p) ==
    CASE p = STEP_INIT -> "STEP_INIT"
      [] p = STEP_UNPACKED -> "STEP_UNPACKED"
      [] p = STEP_REPOSITORIES_INITIALIZED -> "STEP_REPOSITORIES_INITIALIZED"
      [] p = STEP_CONFDIR_INITIALIZED -> "STEP_CONFDIR_INITIALIZED"
      [] p = STEP_WORLD_SET_UPDATED -> "STEP_WORLD_SET_UPDATED"
      [] p = STEP_KERNEL_INSTALLED -> "STEP_KERNEL_INSTALLED"
      [] p = STEP_SYSTEM_CONFIGURED -> "STEP_SYSTEM_CONFIGURED"
      [] p = STEP_CLEANED_UP -> "STEP_CLEANED_UP"

\* the value of the marker variable while no Builder exists: below every member
NoBuilder == STEP_INIT - 1

-----------------------------------------------------------------------------
(* Builder._getChrootDirName: "%02d-%s" % (progress.value, progress.name) *)

DigitChar(d) == <<"0", "1", "2", "3", "4", "5", "6", "7", "8", "9">>[d + 1]

Fmt02d(n) ==
    IF n < 10 THEN "0" \o DigitChar(n)
    ELSE DigitChar(n \div 10) \o DigitChar(n % 10)

getChrootDirName(p) == Fmt02d(p) \o "-" \o StepName(p)

-----------------------------------------------------------------------------
(* WorkDir *)

CURRENT == "cur"

None == "None"

StoreNames == {CURRENT} \cup {getChrootDirName(p) : p \in BuildProgress}

EmptyStore == [n \in StoreNames |-> "none"]

\* the files a caller may write into a tree
MaxFiles == 1

Files == 1 .. MaxFiles

\* nothing but directories holds files; a fresh directory holds none
EmptyTrees == [n \in StoreNames |-> {}]

lexists(d, n) == n \in DOMAIN d /\ d[n] # "none"

is_chroot_dir_opened(d) == lexists(d, CURRENT)

get_old_chroot_dir_names(d) == {n \in DOMAIN d : n # CURRENT /\ d[n] = "dir"}

\* open_chroot_dir without its first assert
open_chroot_dirNoCurrentCheck(d, from_dir_name, rb) ==
    IF from_dir_name # None
    THEN IF from_dir_name \notin get_old_chroot_dir_names(d)
         THEN [ok |-> FALSE, dirs |-> d]
         ELSE IF rb
              THEN [ok |-> TRUE, dirs |-> [d EXCEPT ![CURRENT] = "dir"]]
              ELSE [ok |-> TRUE,
                    dirs |-> [d EXCEPT ![CURRENT] = "dir", ![from_dir_name] = "file"]]
    ELSE [ok |-> TRUE, dirs |-> [d EXCEPT ![CURRENT] = "dir"]]

\* open_chroot_dir that renames whatever the rollback flag says
open_chroot_dirAlwaysRename(d, from_dir_name, rb) ==
    IF lexists(d, CURRENT) THEN [ok |-> FALSE, dirs |-> d]
    ELSE IF from_dir_name # None
         THEN IF from_dir_name \notin get_old_chroot_dir_names(d)
              THEN [ok |-> FALSE, dirs |-> d]
              ELSE [ok |-> TRUE,
                    dirs |-> [d EXCEPT ![CURRENT] = "dir", ![from_dir_name] = "file"]]
         ELSE [ok |-> TRUE, dirs |-> [d EXCEPT ![CURRENT] = "dir"]]

\* open_chroot_dir that renames and writes nothing at the old name
open_chroot_dirPlainRename(d, from_dir_name, rb) ==
    IF lexists(d, CURRENT) THEN [ok |-> FALSE, dirs |-> d]
    ELSE IF from_dir_name # None
         THEN IF from_dir_name \notin get_old_chroot_dir_names(d)
              THEN [ok |-> FALSE, dirs |-> d]
              ELSE IF rb
                   THEN [ok |-> TRUE, dirs |-> [d EXCEPT ![CURRENT] = "dir"]]
                   ELSE [ok |-> TRUE,
                         dirs |-> [d EXCEPT ![CURRENT] = "dir", ![from_dir_name] = "none"]]
         ELSE [ok |-> TRUE, dirs |-> [d EXCEPT ![CURRENT] = "dir"]]

\* open_chroot_dir: the new listing, or the AssertionError that leaves it as it was
open_chroot_dir(d, from_dir_name, rb) ==
    IF lexists(d, CURRENT) THEN [ok |-> FALSE, dirs |-> d]
    ELSE IF from_dir_name # None
         THEN IF from_dir_name \notin get_old_chroot_dir_names(d)
              THEN [ok |-> FALSE, dirs |-> d]
              ELSE IF rb
                   THEN \* cp -r <from> cur
                        [ok |-> TRUE, dirs |-> [d EXCEPT ![CURRENT] = "dir"]]
                   ELSE \* os.rename(<from>, cur), then an empty file is written at <from>
                        [ok |-> TRUE,
                         dirs |-> [d EXCEPT ![CURRENT] = "dir", ![from_dir_name] = "file"]]
         ELSE \* os.mkdir(cur)
              [ok |-> TRUE, dirs |-> [d EXCEPT ![CURRENT] = "dir"]]

\* close_chroot_dir without the assert on the target name
close_chroot_dirNoNameCheck(d, to_dir_name, mvOverFile) ==
    IF ~lexists(d, CURRENT) THEN [ok |-> FALSE, dirs |-> d]
    ELSE IF to_dir_name # None
         THEN IF to_dir_name = CURRENT
              THEN [ok |-> TRUE, dirs |-> d]
              ELSE [ok |-> TRUE,
                    dirs |-> [d EXCEPT ![CURRENT] = "none", ![to_dir_name] = "dir"]]
         ELSE [ok |-> TRUE, dirs |-> [d EXCEPT ![CURRENT] = "none"]]

\* close_chroot_dir without its first assert
close_chroot_dirNoCurrentCheck(d, to_dir_name, mvOverFile) ==
    IF to_dir_name # None
    THEN IF to_dir_name = CURRENT \/ to_dir_name \in get_old_chroot_dir_names(d)
         THEN [ok |-> FALSE, dirs |-> d]
         ELSE [ok |-> TRUE,
               dirs |-> [d EXCEPT ![CURRENT] = "none", ![to_dir_name] = "dir"]]
    ELSE [ok |-> TRUE, dirs |-> [d EXCEPT ![CURRENT] = "none"]]

\* close_chroot_dir that copies the view to the new name and keeps it open
close_chroot_dirCopy(d, to_dir_name, mvOverFile) ==
    IF ~lexists(d, CURRENT) THEN [ok |-> FALSE, dirs |-> d]
    ELSE IF to_dir_name # None
         THEN IF to_dir_name = CURRENT \/ to_dir_name \in get_old_chroot_dir_names(d)
              THEN [ok |-> FALSE, dirs |-> d]
              ELSE [ok |-> TRUE, dirs |-> [d EXCEPT ![to_dir_name] = "dir"]]
         ELSE [ok |-> TRUE, dirs |-> [d EXCEPT ![CURRENT] = "none"]]

\* close_chroot_dir.  robust_layer's mv is outside the repository: what it does
\* when the target name is held by a regular file is the input mvOverFile
\* (TRUE: the file is replaced, FALSE: the move raises).
close_chroot_dir(d, to_dir_name, mvOverFile) ==
    IF ~lexists(d, CURRENT) THEN [ok |-> FALSE, dirs |-> d]
    ELSE IF to_dir_name # None
         THEN IF to_dir_name = CURRENT \/ to_dir_name \in get_old_chroot_dir_names(d)
              THEN [ok |-> FALSE, dirs |-> d]
              ELSE IF d[to_dir_name] = "file" /\ ~mvOverFile
                   THEN [ok |-> FALSE, dirs |-> d]
                   ELSE [ok |-> TRUE,
                         dirs |-> [d EXCEPT ![CURRENT] = "none", ![to_dir_name] = "dir"]]
         ELSE [ok |-> TRUE, dirs |-> [d EXCEPT ![CURRENT] = "none"]]

\* what os.stat() can find at WorkDir._path, one value per check of _verifyDir
RootStates == {"absent", "ok", "notdir", "badmode", "baduid", "badgid"}

\* WorkDir._verifyDir: passes only for a directory of mode 0o40700 owned by the
\* caller (on an absent path os.stat raises instead)
verifyDir(r) == r = "ok"

\* what a successful open_chroot_dir does to the trees: cp -r copies the tree
\* of the source, os.rename carries it over and the file written at the old
\* name is empty, os.mkdir makes an empty directory
open_chroot_tree(t, from_dir_name, rb) ==
    IF from_dir_name # None
    THEN IF rb
         THEN [t EXCEPT ![CURRENT] = t[from_dir_name]]
         ELSE [t EXCEPT ![CURRENT] = t[from_dir_name], ![from_dir_name] = {}]
    ELSE [t EXCEPT ![CURRENT] = {}]

\* what a successful close_chroot_dir does to the trees: mv carries the tree to
\* the new name, rm removes it
close_chroot_tree(t, to_dir_name) ==
    IF to_dir_name # None
    THEN [t EXCEPT ![to_dir_name] = t[CURRENT], ![CURRENT] = {}]
    ELSE [t EXCEPT ![CURRENT] = {}]

\* initialize with the contents of an existing root emptied of the current
\* view only
initializeKeepSnapshots(r, d, t) ==
    IF r = "absent"
    THEN [result |-> "ok", root |-> "ok", dirs |-> EmptyStore, trees |-> EmptyTrees]
    ELSE IF ~verifyDir(r)
    THEN [result |-> "workdir_error", root |-> r, dirs |-> d, trees |-> t]
    ELSE [result |-> "ok", root |-> r, dirs |-> [d EXCEPT ![CURRENT] = "none"],
          trees |-> [t EXCEPT ![CURRENT] = {}]]

\* initialize with the root emptied before it is verified
initializeTruncateFirst(r, d, t) ==
    IF r = "absent"
    THEN [result |-> "ok", root |-> "ok", dirs |-> EmptyStore, trees |-> EmptyTrees]
    ELSE IF ~verifyDir(r)
    THEN [result |-> "workdir_error", root |-> r,
          dirs |-> IF r = "notdir" THEN d ELSE EmptyStore,
          trees |-> IF r = "notdir" THEN t ELSE EmptyTrees]
    ELSE [result |-> "ok", root |-> r, dirs |-> EmptyStore, trees |-> EmptyTrees]

\* WorkDir.initialize: mkdir when nothing is at the path; otherwise
\* _verifyDir(True), which raises WorkDirError, and then truncate_dir, which
\* removes every entry of the root
initialize(r, d, t) ==
    IF r = "absent"
    THEN [result |-> "ok", root |-> "ok", dirs |-> EmptyStore, trees |-> EmptyTrees]
    ELSE IF ~verifyDir(r)
    THEN [result |-> "workdir_error", root |-> r, dirs |-> d, trees |-> t]
    ELSE [result |-> "ok", root |-> r, dirs |-> EmptyStore, trees |-> EmptyTrees]

-----------------------------------------------------------------------------
(* Python values compared by the decorator: == between a list and a tuple is *)
(* False whatever they hold; sorted() returns a list for any iterable.       *)

PyTuple(s) == [type |-> "tuple", items |-> s]

PyList(s) == [type |-> "list", items |-> s]

PyEq(x, y) == x.type = y.type /\ x.items = y.items

RECURSIVE InsertSorted(_, _)
InsertSorted(x, s) ==
    IF s = <<>> THEN <<x>>
    ELSE IF x <= Head(s) THEN <<x>> \o s
    ELSE <<Head(s)>> \o InsertSorted(x, Tail(s))

RECURSIVE SortItems(_)
SortItems(s) == IF s = <<>> THEN <<>> ELSE InsertSorted(Head(s), SortItems(Tail(s)))

sorted(x) == PyList(SortItems(x.items))

PyIn(v, x) == \E i \in 1 .. Len(x.items) : x.items[i] = v

-----------------------------------------------------------------------------
(* The decorated methods of Builder: the Action decorator *)

ActionNames ==
    {"action_unpack", "action_init_repositories", "action_init_confdir",
     "action_update_world_set", "action_install_kernel", "action_config_system",
     "action_cleanup"}

\* the decorator takes its arguments as a star-argument, so they arrive as a tuple
progressStepList(a) ==
    CASE a = "action_unpack" -> PyTuple(<<STEP_INIT>>)
      [] a = "action_init_repositories" -> PyTuple(<<STEP_UNPACKED>>)
      [] a = "action_init_confdir" -> PyTuple(<<STEP_REPOSITORIES_INITIALIZED>>)
      [] a = "action_update_world_set" -> PyTuple(<<STEP_CONFDIR_INITIALIZED>>)
      [] a = "action_install_kernel" -> PyTuple(<<STEP_WORLD_SET_UPDATED>>)
      [] a = "action_config_system" ->
            PyTuple(<<STEP_WORLD_SET_UPDATED, STEP_KERNEL_INSTALLED>>)
      [] a = "action_cleanup" -> PyTuple(<<STEP_SYSTEM_CONFIGURED>>)

\* the declared legal predecessors of an action, as a set
Predecessors(a) ==
    {progressStepList(a).items[i] : i \in 1 .. Len(progressStepList(a).items)}

\* progressStepList[-1]
LastStep(a) == progressStepList(a).items[Len(progressStepList(a).items)]

\* assert sorted(progressStepList) == progressStepList
SortedAssert(a) == PyEq(sorted(progressStepList(a)), progressStepList(a))

\* assert self._progress in progressStepList
ProgressAssert(a, p) == PyIn(p, progressStepList(a))

\* The wrapper with both asserts dropped: what the decorator does when nothing
\* guards the call (a wrapper that forgot its guard).
ActionUnguarded(a, bodyOk, mvOverFile, p, d, rb) ==
    LET o == open_chroot_dir(d, getChrootDirName(p), rb)
        np == LastStep(a) + 1
        c == close_chroot_dir(o.dirs, getChrootDirName(np), mvOverFile)
    IN  IF ~o.ok
        THEN [result |-> "open_failed", progress |-> p, dirs |-> d, sealed |-> 0]
        ELSE IF ~bodyOk
        THEN [result |-> "body_failed", progress |-> p, dirs |-> o.dirs, sealed |-> 0]
        ELSE IF ~c.ok
        THEN [result |-> "seal_failed", progress |-> np, dirs |-> o.dirs, sealed |-> 0]
        ELSE [result |-> "ok", progress |-> np, dirs |-> c.dirs, sealed |-> 1]

\* wrapper(self, *kargs): one call of a decorated method, from marker p and
\* listing d.  bodyOk says whether func(self, *kargs) returns (TRUE) or raises.
\* No statement of the wrapper catches an exception, so whatever raises ends
\* the call with the state reached so far.
Action(a, bodyOk, mvOverFile, p, d, rb) ==
    IF ~SortedAssert(a)
    THEN [result |-> "rejected", progress |-> p, dirs |-> d, sealed |-> 0]
    ELSE IF ~ProgressAssert(a, p)
    THEN [result |-> "rejected", progress |-> p, dirs |-> d, sealed |-> 0]
    ELSE LET o == open_chroot_dir(d, getChrootDirName(p), rb)
             np == LastStep(a) + 1
             c == close_chroot_dir(o.dirs, getChrootDirName(np), mvOverFile)
         IN  IF ~o.ok
             THEN [result |-> "open_failed", progress |-> p, dirs |-> d, sealed |-> 0]
             ELSE IF ~bodyOk
             THEN [result |-> "body_failed", progress |-> p, dirs |-> o.dirs,
                   sealed |-> 0]
             ELSE IF ~c.ok
             THEN [result |-> "seal_failed", progress |-> np, dirs |-> o.dirs,
                   sealed |-> 0]
             ELSE [result |-> "ok", progress |-> np, dirs |-> c.dirs, sealed |-> 1]

-----------------------------------------------------------------------------
(* Builder.__init__ *)

\* what the validated settings say about the build cache: build_opts.ccache,
\* whether host_ccache_dir is given, and whether dev-util/ccache is in
\* install_list / in world_set
Configs ==
    [ccache : BOOLEAN, host_ccachedir : BOOLEAN, in_install : BOOLEAN,
     in_world : BOOLEAN]

\* _TargetSettings.__init__ raises when install_list and world_set share an
\* element; then Builder.__init__ raises when ccache is enabled without a host
\* ccache directory or without the package dev-util/ccache
SettingsErrorRaised(cfg) ==
    \/ cfg.in_install /\ cfg.in_world
    \/ cfg.ccache /\ ~cfg.host_ccachedir
    \/ cfg.ccache /\ ~cfg.in_install /\ ~cfg.in_world

\* the mutant of Builder_init: the initial view is opened and never sealed
Builder_initNoSeal(cfg, mvOverFile, r, d) ==
    IF ~verifyDir(r)
    THEN [result |-> "assert_failed", progress |-> NoBuilder, dirs |-> d]
    ELSE IF SettingsErrorRaised(cfg)
    THEN [result |-> "settings_error", progress |-> NoBuilder, dirs |-> d]
    ELSE LET o == open_chroot_dir(d, None, FALSE)
         IN  IF ~o.ok
             THEN [result |-> "open_failed", progress |-> NoBuilder, dirs |-> d]
             ELSE [result |-> "ok", progress |-> STEP_INIT, dirs |-> o.dirs]

\* the mutant of Builder_init: the store is opened and sealed before the
\* settings are read
Builder_initStoreFirst(cfg, mvOverFile, r, d) ==
    IF ~verifyDir(r)
    THEN [result |-> "assert_failed", progress |-> NoBuilder, dirs |-> d]
    ELSE LET o == open_chroot_dir(d, None, FALSE)
             c == close_chroot_dir(o.dirs, getChrootDirName(STEP_INIT), mvOverFile)
         IN  IF ~o.ok
             THEN [result |-> "open_failed", progress |-> NoBuilder, dirs |-> d]
             ELSE IF ~c.ok
             THEN [result |-> "seal_failed", progress |-> NoBuilder, dirs |-> o.dirs]
             ELSE IF SettingsErrorRaised(cfg)
             THEN [result |-> "settings_error", progress |-> NoBuilder, dirs |-> c.dirs]
             ELSE [result |-> "ok", progress |-> STEP_INIT, dirs |-> c.dirs]

Builder_init(cfg, mvOverFile, r, d) ==
    IF ~verifyDir(r)
    THEN [result |-> "assert_failed", progress |-> NoBuilder, dirs |-> d]
    ELSE IF SettingsErrorRaised(cfg)
    THEN [result |-> "settings_error", progress |-> NoBuilder, dirs |-> d]
    ELSE LET o == open_chroot_dir(d, None, FALSE)
             c == close_chroot_dir(o.dirs, getChrootDirName(STEP_INIT), mvOverFile)
         IN  IF ~o.ok
             THEN [result |-> "open_failed", progress |-> NoBuilder, dirs |-> d]
             ELSE IF ~c.ok
             THEN [result |-> "seal_failed", progress |-> NoBuilder, dirs |-> o.dirs]
             ELSE [result |-> "ok", progress |-> STEP_INIT, dirs |-> c.dirs]

-----------------------------------------------------------------------------
(* WorkDirChrooter and its subclass _Chrooter *)

MaxRepos == 1

MaxScripts == 2

\* the mount points of WorkDirChrooter.bind, in the order it mounts them
BaseTargets == <<"proc", "sys", "dev", "tmp">>

\* the mount points mounted with --rbind and then changed with --make-rslave
RBindTargets == {"sys", "dev"}

RepoTarget(i) == "repo" \o DigitChar(i)

ScriptDir(i) == "script_" \o DigitChar(i)

\* what decides the attachments of _Chrooter.bind: host_distdir and
\* host_binpkgdir given or None, host_ccachedir given with the ccache
\* directory present in the chroot, and the number of repositories whose
\* repos.conf file names a host-dir
SessionConfigs ==
    [host_distdir : BOOLEAN, host_binpkgdir : BOOLEAN, ccachedir : BOOLEAN,
     repos : 0 .. MaxRepos]

NoSessionConfig ==
    [host_distdir |-> FALSE, host_binpkgdir |-> FALSE, ccachedir |-> FALSE,
     repos |-> 0]

\* the mount points of _Chrooter.bind after those of the base class
BindTargets(cfg) ==
    <<"log">>
    \o (IF cfg.host_distdir THEN <<"distfiles">> ELSE <<>>)
    \o (IF cfg.host_binpkgdir THEN <<"binpkgs">> ELSE <<>>)
    \o (IF cfg.ccachedir THEN <<"ccache">> ELSE <<>>)
    \o [i \in 1 .. cfg.repos |-> RepoTarget(i)]

\* the statement of bind() that raises, if any: the copy of resolv.conf, or
\* for a mount point its assert, its mount command or its --make-rslave
NoFailure == [at |-> None, phase |-> None]

Phases(t) ==
    IF t \in RBindTargets THEN {"assert", "mount", "rslave"}
    ELSE {"assert", "mount"}

Range(f) == {f[i] : i \in DOMAIN f}

Failures(ts) ==
    {NoFailure}
    \cup {[at |-> "resolv.conf", phase |-> "cp"]}
    \cup UNION {{[at |-> t, phase |-> ph] : ph \in Phases(t)} : t \in Range(ts)}

Reverse(q) == [i \in 1 .. Len(q) |-> q[Len(q) + 1 - i]]

Remove(q, t) == SelectSeq(q, LAMBDA x : x # t)

Log(s, what, t) == [s EXCEPT !.log = Append(@, <<what, t>>)]

\* Util.isMount(fullfn) for a mount point below the chroot directory
isMount(s, t) == t \in Range(s.mounted)

\* one attachment: assert os.path.exists(fullfn) and not Util.isMount(fullfn),
\* the mount command, for --rbind the --make-rslave command, then the append
\* to the list named by list
Attach(s, t, fail, list) ==
    IF (fail.at = t /\ fail.phase = "assert") \/ isMount(s, t)
    THEN [ok |-> FALSE, s |-> s]
    ELSE IF fail.at = t /\ fail.phase = "mount"
    THEN [ok |-> FALSE, s |-> s]
    ELSE LET s1 == Log([s EXCEPT !.mounted = Append(@, t)], "mount", t)
         IN  IF t \in RBindTargets /\ fail.at = t /\ fail.phase = "rslave"
             THEN [ok |-> FALSE, s |-> s1]
             ELSE [ok |-> TRUE, s |-> [s1 EXCEPT ![list] = Append(@, t)]]

RECURSIVE AttachAll(_, _, _, _)
AttachAll(s, ts, fail, list) ==
    IF ts = <<>> THEN [ok |-> TRUE, s |-> s]
    ELSE LET r == Attach(s, Head(ts), fail, list)
         IN  IF r.ok THEN AttachAll(r.s, Tail(ts), fail, list) ELSE r

\* /bin/umount -l fullfn
Umount(s, t) == Log([s EXCEPT !.mounted = Remove(@, t)], "umount", t)

\* for fullfn in ts: if os.path.exists(fullfn) and Util.isMount(fullfn): umount
RECURSIVE UmountMounted(_, _)
UmountMounted(s, ts) ==
    IF ts = <<>> THEN s
    ELSE UmountMounted(IF isMount(s, Head(ts)) THEN Umount(s, Head(ts)) ELSE s,
                       Tail(ts))

\* for hostPath in ts: robust_layer.simple_fops.rm(hostPath)
RECURSIVE RemoveScriptDirs(_, _)
RemoveScriptDirs(s, ts) ==
    IF ts = <<>> THEN s
    ELSE RemoveScriptDirs(
             Log([s EXCEPT !.scratch = @ \ {Head(ts)}], "rm", ScriptDir(Head(ts))),
             Tail(ts))

\* the mutant of WorkDirChrooter__unbind: the record of mounts is kept
WorkDirChrooter__unbindKeepRecord(s) ==
    LET s1 == UmountMounted(s, Reverse(s.mountList))
        s3 == Log([s1 EXCEPT !.resolv = FALSE], "rm", "resolv.conf")
        s4 == RemoveScriptDirs(s3, Reverse(s3.scriptDirList))
    IN  [s4 EXCEPT !.scriptDirList = <<>>]

\* the mutant of WorkDirChrooter__unbind: the mounts are unmounted in the
\* order of the record
WorkDirChrooter__unbindForward(s) ==
    LET s1 == UmountMounted(s, s.mountList)
        s2 == [s1 EXCEPT !.mountList = <<>>]
        s3 == Log([s2 EXCEPT !.resolv = FALSE], "rm", "resolv.conf")
        s4 == RemoveScriptDirs(s3, Reverse(s3.scriptDirList))
    IN  [s4 EXCEPT !.scriptDirList = <<>>]

\* the mutant of WorkDirChrooter__unbind: the script directories are removed
\* before resolv.conf
WorkDirChrooter__unbindScriptsFirst(s) ==
    LET s1 == UmountMounted(s, Reverse(s.mountList))
        s2 == [s1 EXCEPT !.mountList = <<>>]
        s3 == RemoveScriptDirs(s2, Reverse(s2.scriptDirList))
        s4 == Log([s3 EXCEPT !.resolv = FALSE], "rm", "resolv.conf")
    IN  [s4 EXCEPT !.scriptDirList = <<>>]

\* WorkDirChrooter._unbind
WorkDirChrooter__unbind(s) ==
    LET s1 == UmountMounted(s, Reverse(s.mountList))
        s2 == [s1 EXCEPT !.mountList = <<>>]
        s3 == Log([s2 EXCEPT !.resolv = FALSE], "rm", "resolv.conf")
        s4 == RemoveScriptDirs(s3, Reverse(s3.scriptDirList))
    IN  [s4 EXCEPT !.scriptDirList = <<>>]

\* WorkDirChrooter.bind
WorkDirChrooter_bind(s, fail) ==
    IF Len(s.mountList) # 0
    THEN [result |-> "assert_failed", s |-> s]
    ELSE IF fail.at = "resolv.conf"
    THEN [result |-> "failed", s |-> WorkDirChrooter__unbind(s)]
    ELSE LET s1 == Log([s EXCEPT !.resolv = TRUE], "cp", "resolv.conf")
             r == AttachAll(s1, BaseTargets, fail, "mountList")
         IN  IF r.ok
             THEN [result |-> "ok", s |-> r.s]
             ELSE [result |-> "failed", s |-> WorkDirChrooter__unbind(r.s)]

\* WorkDirChrooter.unbind
WorkDirChrooter_unbind(s) ==
    IF Len(s.mountList) = 0
    THEN [result |-> "assert_failed", s |-> s]
    ELSE [result |-> "ok", s |-> WorkDirChrooter__unbind(s)]

\* for fullfn in ts: Util.cmdCall("/bin/umount", "-l", fullfn), which raises
\* when umount fails because nothing is mounted at fullfn
RECURSIVE UmountEach(_, _)
UmountEach(s, ts) ==
    IF ts = <<>> THEN [ok |-> TRUE, s |-> s]
    ELSE IF ~isMount(s, Head(ts)) THEN [ok |-> FALSE, s |-> s]
    ELSE UmountEach(Umount(s, Head(ts)), Tail(ts))

\* _Chrooter.unbind
Chrooter_unbind(s) ==
    IF s.hasBindMountList
    THEN LET u == UmountEach(s, Reverse(s.bindMountList))
         IN  IF ~u.ok
             THEN [result |-> "failed", s |-> u.s]
             ELSE WorkDirChrooter_unbind(
                      [u.s EXCEPT !.hasBindMountList = FALSE, !.bindMountList = <<>>])
    ELSE WorkDirChrooter_unbind(s)

\* _Chrooter.bind
Chrooter_bind(s, fail) ==
    LET b == WorkDirChrooter_bind(s, fail)
    IN  IF b.result # "ok" THEN b
        ELSE LET s1 == [b.s EXCEPT !.hasBindMountList = TRUE, !.bindMountList = <<>>]
                 r == AttachAll(s1, BindTargets(s.cfg), fail, "bindMountList")
             IN  IF r.ok
                 THEN [result |-> "ok", s |-> r.s]
                 ELSE [result |-> "failed", s |-> Chrooter_unbind(r.s).s]

\* self._detectArch() == platform.machine()
Machines == {"x86_64", "aarch64"}

detectArch == "x86_64"

\* the two asserts that open shell_call, shell_test and shell_exec
ShellAsserts(s) == Len(s.mountList) > 0 /\ detectArch = s.machine

\* the mutant of shell_call: a failing command unwinds the session
shell_callUnwinding(s, cmdOk) ==
    IF ~ShellAsserts(s) THEN [result |-> "assert_failed", s |-> s]
    ELSE IF cmdOk THEN [result |-> "ok", s |-> Log(s, "chroot", "shell_call")]
    ELSE [result |-> "command_failed",
          s |-> WorkDirChrooter__unbind(Log(s, "chroot", "shell_call"))]

\* WorkDirChrooter.shell_call: Util.shellCall raises when the command fails
shell_call(s, cmdOk) ==
    IF ~ShellAsserts(s) THEN [result |-> "assert_failed", s |-> s]
    ELSE [result |-> IF cmdOk THEN "ok" ELSE "command_failed",
          s |-> Log(s, "chroot", "shell_call")]

\* WorkDirChrooter.shell_test: Util.shellCallTestSuccess returns the outcome
shell_test(s, cmdOk) ==
    IF ~ShellAsserts(s) THEN [result |-> "assert_failed", s |-> s]
    ELSE [result |-> IF cmdOk THEN "ok" ELSE "false",
          s |-> Log(s, "chroot", "shell_test")]

\* WorkDirChrooter.shell_exec
shell_exec(s, cmdOk) ==
    IF ~ShellAsserts(s) THEN [result |-> "assert_failed", s |-> s]
    ELSE [result |-> IF cmdOk THEN "ok" ELSE "command_failed",
          s |-> Log(s, "chroot", "shell_exec")]

\* WorkDirChrooter.interactive_shell
interactive_shell(s, cmdOk) ==
    IF Len(s.mountList) = 0 THEN [result |-> "assert_failed", s |-> s]
    ELSE [result |-> IF cmdOk THEN "ok" ELSE "command_failed",
          s |-> Log(s, "chroot", "interactive_shell")]

\* the mutant of script_exec: the script directory is made before the session
\* is tested
script_execUnchecked(s, fillOk, cmdOk) ==
    LET i == Len(s.scriptDirList)
        s1 == [s EXCEPT !.scratch = @ \cup {i}, !.scriptDirList = Append(@, i)]
        s2 == Log(s1, "mkdir", ScriptDir(i))
    IN  IF ~fillOk THEN [result |-> "fill_failed", s |-> s2]
        ELSE shell_exec(s2, cmdOk)

\* the mutant of script_exec: the script directory is recorded after it has
\* been filled
script_execRecordLate(s, fillOk, cmdOk) ==
    LET i == Len(s.scriptDirList)
    IN  IF Len(s.mountList) = 0 \/ i \in s.scratch
        THEN [result |-> "assert_failed", s |-> s]
        ELSE LET s1 == Log([s EXCEPT !.scratch = @ \cup {i}], "mkdir", ScriptDir(i))
             IN  IF ~fillOk THEN [result |-> "fill_failed", s |-> s1]
                 ELSE shell_exec([s1 EXCEPT !.scriptDirList = Append(@, i)], cmdOk)

\* WorkDirChrooter.script_exec(scriptObj): scriptObj.get_description() and
\* scriptObj.fill_script_dir(hostPath) return or raise (fillOk), then the
\* script is run with shell_exec
script_exec(s, fillOk, cmdOk) ==
    LET i == Len(s.scriptDirList)
    IN  IF Len(s.mountList) = 0 \/ i \in s.scratch
        THEN [result |-> "assert_failed", s |-> s]
        ELSE LET s1 == [s EXCEPT !.scratch = @ \cup {i},
                                 !.scriptDirList = Append(@, i)]
                 s2 == Log(s1, "mkdir", ScriptDir(i))
             IN  IF ~fillOk THEN [result |-> "fill_failed", s |-> s2]
                 ELSE shell_exec(s2, cmdOk)

SessionKinds == {"WorkDirChrooter", "_Chrooter"}

\* WorkDirChrooter.__init__ / _Chrooter.__init__ on a chroot directory in
\* which nothing is mounted
NewChrooter(kind, cfg, machine) ==
    [kind |-> kind, cfg |-> cfg, machine |-> machine,
     mountList |-> <<>>, scriptDirList |-> <<>>,
     hasBindMountList |-> FALSE, bindMountList |-> <<>>,
     mounted |-> <<>>, resolv |-> FALSE, scratch |-> {}, log |-> <<>>]

NoChrooter == NewChrooter("WorkDirChrooter", NoSessionConfig, detectArch)

NoSessionCall ==
    [op |-> "none", fail |-> NoFailure, cmdOk |-> FALSE, result |-> "none",
     pre |-> NoChrooter, prevOp |-> "none", prevResult |-> "none"]

-----------------------------------------------------------------------------
(* Derivations of the Builder: parallelism and the install list *)

MaxCores == 8

MaxCoolingLevel == 3

MaxMemoryGiB == 25

\* the threshold 24 * 1024 * 1024 * 1024 of memory_size, a number of bytes,
\* counted in GiB: memory_size is g GiB and a remainder below one GiB, and it
\* is at or above the threshold exactly when g is at least 24
HighMemoryGiB == 24

\* host_computing_power: cpu_core_count, memory_size (its whole GiB) and
\* cooling_level, whose lowest level is 1
ComputingPowers ==
    [cpu_core_count : 1 .. MaxCores, memory_gib : 0 .. MaxMemoryGiB,
     cooling_level : 1 .. MaxCoolingLevel]

max(a, b) == IF a >= b THEN a ELSE b

\* the mutant of action_install_kernel: the load ceiling has no lower limit
action_install_kernelNoFloor(power) ==
    IF power.cooling_level <= 1
    THEN [tj |-> 1, tl |-> 1]
    ELSE IF power.memory_gib >= HighMemoryGiB
    THEN [tj |-> power.cpu_core_count + 2, tl |-> power.cpu_core_count]
    ELSE [tj |-> power.cpu_core_count, tl |-> power.cpu_core_count - 1]

\* Builder.action_install_kernel: tj and tl
action_install_kernel(power) ==
    IF power.cooling_level <= 1
    THEN [tj |-> 1, tl |-> 1]
    ELSE IF power.memory_gib >= HighMemoryGiB
    THEN [tj |-> power.cpu_core_count + 2, tl |-> power.cpu_core_count]
    ELSE [tj |-> power.cpu_core_count, tl |-> max(1, power.cpu_core_count - 1)]

\* the mutant of write_make_conf: the make job count has no two-core allowance
write_make_confNoAllowance(power) ==
    IF power.cooling_level <= 1
    THEN [jobcountMake |-> 1, jobcountEmerge |-> 1, loadavg |-> 1]
    ELSE [jobcountMake |-> power.cpu_core_count,
          jobcountEmerge |-> power.cpu_core_count,
          loadavg |-> IF power.memory_gib >= HighMemoryGiB
                      THEN power.cpu_core_count
                      ELSE max(1, power.cpu_core_count - 1)]

\* TargetConfDir.write_make_conf: jobcountMake, jobcountEmerge and loadavg
write_make_conf(power) ==
    IF power.cooling_level <= 1
    THEN [jobcountMake |-> 1, jobcountEmerge |-> 1, loadavg |-> 1]
    ELSE IF power.memory_gib >= HighMemoryGiB
    THEN [jobcountMake |-> power.cpu_core_count + 2,
          jobcountEmerge |-> power.cpu_core_count,
          loadavg |-> power.cpu_core_count]
    ELSE [jobcountMake |-> power.cpu_core_count,
          jobcountEmerge |-> power.cpu_core_count,
          loadavg |-> max(1, power.cpu_core_count - 1)]

MaxListLen == 2

ccache == "dev-util/ccache"

Packages == {ccache, "net-misc/curl", "sys-apps/foo"}

PackageLists == UNION {[1 .. n -> Packages] : n \in 0 .. MaxListLen}

\* list.remove(x): the first occurrence of x leaves the list
list_remove(q, x) ==
    LET i == CHOOSE k \in 1 .. Len(q) : q[k] = x /\ \A j \in 1 .. k - 1 : q[j] # x
    IN  SubSeq(q, 1, i - 1) \o SubSeq(q, i + 1, Len(q))

\* list.insert(0, x)
list_insert0(q, x) == <<x>> \o q

ORDER == <<ccache>>

\* for pkg in ts: if pkg in installList: remove it and insert it at 0
RECURSIVE OrderInstallList(_, _)
OrderInstallList(installList, ts) ==
    IF ts = <<>> THEN installList
    ELSE OrderInstallList(
             IF Head(ts) \in Range(installList)
             THEN list_insert0(list_remove(installList, Head(ts)), Head(ts))
             ELSE installList,
             Tail(ts))

\* the mutant of action_update_world_set: the list is not reordered
action_update_world_setUnordered(install_list, world_set, installed) ==
    SelectSeq(install_list, LAMBDA pkg : pkg \notin installed)
    \o SelectSeq(world_set, LAMBDA pkg : pkg \notin installed)

\* Builder.action_update_world_set: installList as it is when the packages
\* are merged
action_update_world_set(install_list, world_set, installed) ==
    OrderInstallList(
        SelectSeq(install_list, LAMBDA pkg : pkg \notin installed)
        \o SelectSeq(world_set, LAMBDA pkg : pkg \notin installed),
        Reverse(ORDER))

NoPower == [cpu_core_count |-> 1, memory_gib |-> 0, cooling_level |-> 1]

NoCalc ==
    [fn |-> "none", power |-> NoPower, install_list |-> <<>>, world_set |-> <<>>,
     installed |-> {}, out |-> <<>>]

-----------------------------------------------------------------------------
(* The state machine *)

\* the settings of a call that reads none
NoConfig == [ccache |-> FALSE, host_ccachedir |-> FALSE, in_install |-> FALSE,
             in_world |-> FALSE]

NoCall == [op |-> "none", act |-> None, bodyOk |-> FALSE, from |-> NoBuilder,
           result |-> "none", cfg |-> NoConfig]

Init ==
    /\ rollback \in BOOLEAN
    /\ root \in RootStates
    /\ dirs = EmptyStore
    /\ progress = NoBuilder
    /\ sealed = 0
    /\ last = NoCall
    /\ trees = EmptyTrees
    /\ pre = [progress |-> NoBuilder, root |-> root, dirs |-> EmptyStore,
              trees |-> EmptyTrees, last |-> NoCall]
    /\ chrooter = NoChrooter
    /\ call = NoSessionCall
    /\ calc = NoCalc

Snapshot ==
    [progress |-> progress, root |-> root, dirs |-> dirs, trees |-> trees,
     last |-> last]

\* WorkDir.initialize(), called while no Builder drives the store
Initialize ==
    /\ progress = NoBuilder
    /\ LET r == initialize(root, dirs, trees)
       IN  /\ root' = r.root
           /\ dirs' = r.dirs
           /\ trees' = r.trees
           /\ last' = [NoCall EXCEPT !.op = "initialize", !.result = r.result]
    /\ pre' = Snapshot
    /\ UNCHANGED <<rollback, progress, sealed, chrooter, call, calc>>

\* Builder(settings, target_settings, work_dir)
Construct ==
    /\ progress = NoBuilder
    /\ \E cfg \in Configs, mvOverFile \in BOOLEAN :
          LET r == Builder_init(cfg, mvOverFile, root, dirs)
          IN  /\ progress' = r.progress
              /\ dirs' = r.dirs
              /\ last' = [NoCall EXCEPT !.op = "construct", !.result = r.result,
                                        !.cfg = cfg]
    /\ sealed' = 0
    /\ pre' = Snapshot
    /\ UNCHANGED <<rollback, root, trees, chrooter, call, calc>>

\* builder.action_xxx(...), the body a stub that returns or raises; the stub
\* writes no file, so the trees stay as they are
Invoke ==
    /\ progress # NoBuilder
    /\ \E a \in ActionNames, bodyOk \in BOOLEAN, mvOverFile \in BOOLEAN :
          LET r == Action(a, bodyOk, mvOverFile, progress, dirs, rollback)
          IN  /\ progress' = r.progress
              /\ dirs' = r.dirs
              /\ sealed' = sealed + r.sealed
              /\ last' = [NoCall EXCEPT !.op = "action", !.act = a,
                                        !.bodyOk = bodyOk, !.from = progress,
                                        !.result = r.result]
    /\ pre' = Snapshot
    /\ UNCHANGED <<rollback, root, trees, chrooter, call, calc>>

\* the Builder object is dropped (the build is abandoned, the process ends);
\* the store stays on disk
Abandon ==
    /\ progress # NoBuilder
    /\ progress' = NoBuilder
    /\ sealed' = 0
    /\ last' = [NoCall EXCEPT !.op = "abandon", !.from = progress, !.result = "ok"]
    /\ pre' = Snapshot
    /\ UNCHANGED <<rollback, root, dirs, trees, chrooter, call, calc>>

Next == Initialize \/ Construct \/ Invoke \/ Abandon

Spec == Init /\ [][Next]_vars

-----------------------------------------------------------------------------
(* Properties of the pipeline, stated over the last call and the state at  *)
(* its start.                                                              *)

\* the last call was a decorated method, started from a declared predecessor
LegalCall(c) == c.op = "action" /\ c.from \in Predecessors(c.act)

CurrentOpen == is_chroot_dir_opened(dirs)

Sealed(d) == get_old_chroot_dir_names(d)

\* C1: an action invoked while the marker is not among its declared
\* predecessors fails, and nothing has changed when it does: the marker, the
\* sealed snapshots (the whole listing) and the absence of a current view are
\* as they were before the call.
C1_OutOfOrderRejectedWithoutEffect ==
    (last.op = "action" /\ last.from \notin Predecessors(last.act))
        => /\ last.result = "rejected"
           /\ progress = pre.progress
           /\ dirs = pre.dirs
           /\ ~CurrentOpen

C1_Witness ==
    /\ last.op = "action"
    /\ last.from \notin Predecessors(last.act)
    /\ last.result = "rejected"
    /\ Sealed(dirs) # {}

\* C2: an action invoked while the marker equals one of its declared
\* predecessors is not rejected by the guard; it goes on to open the view and
\* run its body.
C2_LegalCallPassesGuard ==
    LegalCall(last) => last.result # "rejected"

\* C3: when the body of an action succeeds, the marker is one step past its
\* value at the start of the action and the view is sealed under the
\* canonical name of the new marker, for every action and legal predecessor.
C3_SuccessAdvancesByOneAndSeals ==
    (LegalCall(last) /\ last.bodyOk)
        => /\ progress = last.from + 1
           /\ dirs[getChrootDirName(progress)] = "dir"
           /\ ~CurrentOpen

\* C4: over sequences of successful actions the marker strictly increases
\* and equals the number of snapshots sealed so far plus the initial value.
C4_MarkerCountsSealedSnapshots ==
    /\ progress # NoBuilder => progress = STEP_INIT + sealed
    /\ (LegalCall(last) /\ last.bodyOk) => progress > last.from

\* C5: when the body of an action fails, the failure propagates and the
\* store is left resumable: the same sealed snapshots, the marker unchanged,
\* the current view discarded in a store without rollback and left in place
\* in a store with rollback.
C5_BodyFailureLeavesResumableStore ==
    (LegalCall(last) /\ ~last.bodyOk)
        => /\ last.result = "body_failed"
           /\ progress = last.from
           /\ Sealed(dirs) = Sealed(pre.dirs)
           /\ CurrentOpen = rollback

\* C6: an action either completes and seals its snapshot, or fails and
\* leaves the prior sealed state intact: after a failed action the marker is
\* unchanged and the snapshot named for it is still a sealed snapshot, with
\* or without rollback.
C6_FailedActionKeepsSealedState ==
    last.op = "action"
        => IF last.result = "ok"
           THEN getChrootDirName(progress) \in Sealed(dirs) /\ ~CurrentOpen
           ELSE progress = last.from /\ getChrootDirName(progress) \in Sealed(dirs)

C6_Witness ==
    /\ ~rollback
    /\ LegalCall(last)
    /\ ~last.bodyOk
    /\ last.result # "ok"
    /\ getChrootDirName(progress) \in Sealed(dirs)

\* C7: after an action has failed, the caller can invoke the same action
\* again: the second call passes the guard and opens a view from the last
\* sealed snapshot.
C7_ReinvocationAfterFailureOpensView ==
    (/\ last.op = "action"
     /\ LegalCall(pre.last)
     /\ pre.last.act = last.act
     /\ ~pre.last.bodyOk
     /\ pre.last.result # "ok")
        => last.result \notin {"rejected", "open_failed"}

\* C8: on a fresh store, after construction and a successful unpack, the
\* snapshot named for UNPACKED is sealed, the marker is UNPACKED and there is
\* no current view.
C8_FreshUnpackSealsUnpacked ==
    (/\ last.op = "action"
     /\ last.act = "action_unpack"
     /\ last.bodyOk
     /\ pre.last.op = "construct"
     /\ pre.last.result = "ok"
     /\ pre.dirs = [EmptyStore EXCEPT ![getChrootDirName(STEP_INIT)] = "dir"])
        => /\ last.result = "ok"
           /\ progress = STEP_UNPACKED
           /\ getChrootDirName(STEP_UNPACKED) \in Sealed(dirs)
           /\ ~CurrentOpen

\* the marker named by the sealed snapshots present: the greatest ordinal
DerivedMarker(d) ==
    CHOOSE p \in BuildProgress :
        /\ getChrootDirName(p) \in Sealed(d)
        /\ \A q \in BuildProgress : getChrootDirName(q) \in Sealed(d) => q <= p

\* C9: a pipeline can be constructed on a store that holds sealed snapshots
\* of an earlier run: construction succeeds with the marker derived from the
\* snapshot names, no current view left open and no snapshot lost.
C9_ConstructionResumesHistory ==
    (/\ last.op = "construct"
     /\ last.result \notin {"assert_failed", "settings_error"}
     /\ Sealed(pre.dirs) # {}
     /\ ~is_chroot_dir_opened(pre.dirs))
        => /\ last.result = "ok"
           /\ ~CurrentOpen
           /\ Sealed(pre.dirs) \subseteq Sealed(dirs)
           /\ progress = DerivedMarker(pre.dirs)

\* C10: the marker never decreases over action invocations, whether they
\* succeed, fail or are rejected.
C10_MarkerNeverDecreases ==
    last.op = "action" => progress >= pre.progress

C10_Witness ==
    /\ last.op = "action"
    /\ pre.last.op = "action"
    /\ LegalCall(last)
    /\ ~LegalCall(pre.last)
    /\ progress >= pre.progress

\* C11: on success of an action the marker is one past the last of the
\* action's declared predecessors, whichever of them the action started from.
C11_SuccessSetsMarkerPastLastPredecessor ==
    (LegalCall(last) /\ last.bodyOk)
        => last.result = "ok" /\ progress = LastStep(last.act) + 1

-----------------------------------------------------------------------------
(* The wrapper over every value of the marker.  A Builder whose marker is p *)
(* over the store that holds the snapshot named for p; from there only the  *)
(* decorated methods are called.                                            *)

InitAnyMarker ==
    /\ rollback \in BOOLEAN
    /\ root = "ok"
    /\ progress \in BuildProgress
    /\ dirs = [EmptyStore EXCEPT ![getChrootDirName(progress)] = "dir"]
    /\ trees = EmptyTrees
    /\ sealed = progress - STEP_INIT
    /\ last = NoCall
    /\ pre = [progress |-> progress, root |-> root, dirs |-> dirs,
              trees |-> EmptyTrees, last |-> NoCall]
    /\ chrooter = NoChrooter
    /\ call = NoSessionCall
    /\ calc = NoCalc

SpecGuard == InitAnyMarker /\ [][Invoke]_vars

\* C12: the marker never leaves the enumerated steps, and once it is
\* STEP_CLEANED_UP every action is rejected by the guard: the marker stays and
\* no further snapshot is sealed.
C12_CleanedUpIsTerminal ==
    /\ progress \in BuildProgress
    /\ (last.op = "action" /\ last.from = STEP_CLEANED_UP)
           => /\ last.result = "rejected"
              /\ progress = STEP_CLEANED_UP
              /\ dirs = pre.dirs
              /\ sealed = STEP_CLEANED_UP - STEP_INIT

C12_Witness ==
    /\ last.op = "action"
    /\ last.from = STEP_CLEANED_UP
    /\ last.result = "rejected"
    /\ pre.last.op = "action"
    /\ progress = STEP_CLEANED_UP

-----------------------------------------------------------------------------
(* The store on its own: a WorkDir made on a path that holds anything, and *)
(* a caller of its methods.                                                 *)

\* the snapshot names the caller uses
MaxSnaps == 2

SnapNames == {getChrootDirName(p) : p \in STEP_INIT .. MaxSnaps}

\* the arguments given to open_chroot_dir and close_chroot_dir
StoreArgs == SnapNames \cup {CURRENT, None}

\* what a directory at the path can hold under the names the caller uses
Listings ==
    {[n \in StoreNames |-> IF n \in DOMAIN f THEN f[n] ELSE "none"] :
        f \in {g \in [SnapNames \cup {CURRENT} -> {"none", "dir", "file"}] :
                  g[CURRENT] # "file"}}

TreesOf(d) ==
    {[n \in StoreNames |-> IF n \in DOMAIN f /\ d[n] = "dir" THEN f[n] ELSE {}] :
        f \in [SnapNames \cup {CURRENT} -> SUBSET Files]}

InitStore ==
    /\ rollback \in BOOLEAN
    /\ root \in RootStates
    /\ dirs \in IF root \in {"absent", "notdir"} THEN {EmptyStore} ELSE Listings
    /\ trees \in TreesOf(dirs)
    /\ progress = NoBuilder
    /\ sealed = 0
    /\ last = NoCall
    /\ pre = [progress |-> NoBuilder, root |-> root, dirs |-> dirs, trees |-> trees,
              last |-> NoCall]
    /\ chrooter = NoChrooter
    /\ call = NoSessionCall
    /\ calc = NoCalc

\* the state at the start of a call on the store
StoreSnapshot == [Snapshot EXCEPT !.last = NoCall]

StoreCall(op, arg, result) ==
    [NoCall EXCEPT !.op = op, !.act = arg, !.result = result]

\* work_dir.initialize()
StoreInitialize ==
    /\ LET r == initialize(root, dirs, trees)
       IN  /\ root' = r.root
           /\ dirs' = r.dirs
           /\ trees' = r.trees
           /\ last' = StoreCall("initialize", None, r.result)
    /\ pre' = StoreSnapshot
    /\ UNCHANGED <<rollback, progress, sealed, chrooter, call, calc>>

\* work_dir.open_chroot_dir(from_dir_name=...), on a verified root
StoreOpen ==
    /\ root = "ok"
    /\ \E from_dir_name \in StoreArgs :
          LET o == open_chroot_dir(dirs, from_dir_name, rollback)
          IN  /\ dirs' = o.dirs
              /\ trees' = IF o.ok THEN open_chroot_tree(trees, from_dir_name, rollback)
                          ELSE trees
              /\ last' = StoreCall("open", from_dir_name,
                                   IF o.ok THEN "ok" ELSE "failed")
    /\ pre' = StoreSnapshot
    /\ UNCHANGED <<rollback, root, progress, sealed, chrooter, call, calc>>

\* work_dir.close_chroot_dir(to_dir_name=...), on a verified root
StoreClose ==
    /\ root = "ok"
    /\ \E to_dir_name \in StoreArgs, mvOverFile \in BOOLEAN :
          LET c == close_chroot_dir(dirs, to_dir_name, mvOverFile)
          IN  /\ dirs' = c.dirs
              /\ trees' = IF c.ok THEN close_chroot_tree(trees, to_dir_name)
                          ELSE trees
              /\ last' = StoreCall("close", to_dir_name,
                                   IF c.ok THEN "ok" ELSE "failed")
    /\ pre' = StoreSnapshot
    /\ UNCHANGED <<rollback, root, progress, sealed, chrooter, call, calc>>

\* the caller writes or removes files under work_dir.chroot_dir_path, which
\* asserts that the current view exists
StoreWrite ==
    /\ root = "ok"
    /\ is_chroot_dir_opened(dirs)
    /\ \E content \in SUBSET Files :
          /\ content # trees[CURRENT]
          /\ trees' = [trees EXCEPT ![CURRENT] = content]
    /\ last' = StoreCall("write", None, "ok")
    /\ pre' = StoreSnapshot
    /\ UNCHANGED <<rollback, root, dirs, progress, sealed, chrooter, call, calc>>

NextStore == StoreInitialize \/ StoreOpen \/ StoreClose \/ StoreWrite

SpecStore == InitStore /\ [][NextStore]_vars

-----------------------------------------------------------------------------
(* Properties of the store, stated over the last call and the state at its *)
(* start.                                                                   *)

StoreUntouched == dirs = pre.dirs /\ trees = pre.trees /\ root = pre.root

\* C13: open_chroot_dir fails whenever a current view exists, with or
\* without a source snapshot, and leaves the current view and every sealed
\* snapshot as they were.
C13_OpenFailsWhileCurrentExists ==
    (last.op = "open" /\ is_chroot_dir_opened(pre.dirs))
        => last.result = "failed" /\ StoreUntouched

C13_Witness ==
    /\ last.op = "open"
    /\ is_chroot_dir_opened(pre.dirs)
    /\ last.act \in Sealed(pre.dirs)
    /\ last.result = "failed"
    /\ trees[CURRENT] # trees[last.act]

\* C14: with rollback, opening from snapshot X makes the current view a copy
\* of X and leaves X a sealed snapshot with the tree it had; what is written
\* into the current view afterwards changes no snapshot.
C14_RollbackOpenCopies ==
    /\ (rollback /\ last.op = "open" /\ last.act # None /\ last.result = "ok")
           => /\ dirs[CURRENT] = "dir"
              /\ trees[CURRENT] = pre.trees[last.act]
              /\ last.act \in Sealed(dirs)
              /\ trees[last.act] = pre.trees[last.act]
              /\ \A n \in StoreNames \ {CURRENT} :
                    dirs[n] = pre.dirs[n] /\ trees[n] = pre.trees[n]
    /\ (rollback /\ last.op = "open" /\ last.act \in Sealed(pre.dirs)
            /\ ~is_chroot_dir_opened(pre.dirs))
           => last.result = "ok"
    /\ last.op = "write"
           => \A n \in StoreNames \ {CURRENT} :
                 dirs[n] = pre.dirs[n] /\ trees[n] = pre.trees[n]

C14_Witness ==
    /\ rollback
    /\ last.op = "write"
    /\ \E n \in Sealed(dirs) : trees[n] # trees[CURRENT] /\ trees[n] = pre.trees[CURRENT]

\* C15 as claimed: without rollback, opening from snapshot X moves X's tree to
\* the current view and nothing named X remains in the store root.
C15_RenameLeavesNothingAtSource ==
    (~rollback /\ last.op = "open" /\ last.act # None /\ last.result = "ok")
        => /\ trees[CURRENT] = pre.trees[last.act]
           /\ last.act \notin Sealed(dirs)
           /\ ~lexists(dirs, last.act)

\* C15 as amended: without rollback, opening from snapshot X moves X's tree to
\* the current view; X is no longer a sealed snapshot, and an empty regular
\* file is left at the name X.
C15_RenameLeavesEmptyFileAtSource ==
    /\ (~rollback /\ last.op = "open" /\ last.act # None /\ last.result = "ok")
           => /\ dirs[CURRENT] = "dir"
              /\ trees[CURRENT] = pre.trees[last.act]
              /\ last.act \notin Sealed(dirs)
              /\ dirs[last.act] = "file"
              /\ trees[last.act] = {}
    /\ (~rollback /\ last.op = "open" /\ last.act \in Sealed(pre.dirs)
            /\ ~is_chroot_dir_opened(pre.dirs))
           => last.result = "ok"

C15_Witness ==
    /\ ~rollback
    /\ last.op = "open"
    /\ last.act # None
    /\ last.result = "ok"
    /\ trees[CURRENT] # {}
    /\ dirs[last.act] = "file"

\* C16: close_chroot_dir with a name that is an existing sealed snapshot, or
\* the reserved name of the current view, fails; the current view stays open
\* and the sealed snapshots are as they were.
C16_CloseFailsOnNameCollision ==
    (last.op = "close" /\ (last.act = CURRENT \/ last.act \in Sealed(pre.dirs)))
        => /\ last.result = "failed"
           /\ StoreUntouched
           /\ CurrentOpen = is_chroot_dir_opened(pre.dirs)

C16_Witness ==
    /\ last.op = "close"
    /\ last.act \in Sealed(pre.dirs)
    /\ is_chroot_dir_opened(pre.dirs)
    /\ last.result = "failed"
    /\ CurrentOpen

\* C17: close_chroot_dir fails whenever no current view exists, with or
\* without a target name, and changes nothing in the store.
C17_CloseFailsWithoutCurrent ==
    (last.op = "close" /\ ~is_chroot_dir_opened(pre.dirs))
        => last.result = "failed" /\ StoreUntouched

C17_Witness ==
    /\ last.op = "close"
    /\ ~is_chroot_dir_opened(pre.dirs)
    /\ last.act \in SnapNames
    /\ ~lexists(pre.dirs, last.act)
    /\ last.result = "failed"

\* C18: close_chroot_dir with a name seals the current view under it (no
\* current view afterwards, the name a sealed snapshot holding the view's
\* tree); without a name it discards the view (no current view afterwards,
\* the sealed snapshots as before).  The sealed snapshots never include the
\* reserved name.
C18_CloseSealsOrDiscards ==
    /\ CURRENT \notin Sealed(dirs)
    /\ (last.op = "close" /\ last.result = "ok" /\ last.act # None)
           => /\ ~CurrentOpen
              /\ last.act \in Sealed(dirs)
              /\ trees[last.act] = pre.trees[CURRENT]
              /\ Sealed(dirs) = Sealed(pre.dirs) \cup {last.act}
    /\ (last.op = "close" /\ last.result = "ok" /\ last.act = None)
           => /\ ~CurrentOpen
              /\ Sealed(dirs) = Sealed(pre.dirs)
              /\ \A n \in Sealed(dirs) : trees[n] = pre.trees[n]
    /\ (last.op = "close" /\ is_chroot_dir_opened(pre.dirs)
            /\ (last.act = None \/ (last.act # CURRENT /\ ~lexists(pre.dirs, last.act))))
           => last.result = "ok"

C18_Witness ==
    /\ last.op = "close"
    /\ last.result = "ok"
    /\ last.act \in SnapNames
    /\ trees[last.act] # {}
    /\ Sealed(pre.dirs) # {}

\* C19: initialize() on a root that exists but is not a directory, or has the
\* wrong mode or owner, raises WorkDirError before anything is removed: the
\* content of the root is as it was.
C19_InitializeRejectsBadRoot ==
    (last.op = "initialize"
        /\ pre.root \in {"notdir", "badmode", "baduid", "badgid"})
        => last.result = "workdir_error" /\ StoreUntouched

C19_Witness ==
    /\ last.op = "initialize"
    /\ pre.root = "badmode"
    /\ last.result = "workdir_error"
    /\ Sealed(dirs) # {}
    /\ CurrentOpen

\* C20 as claimed: initialize() on an existing root with the right signature
\* removes the current view and leaves every sealed snapshot listed.
C20_InitializeKeepsSnapshots ==
    (last.op = "initialize" /\ pre.root = "ok")
        => /\ last.result = "ok"
           /\ ~CurrentOpen
           /\ Sealed(pre.dirs) \subseteq Sealed(dirs)

\* C20 as amended: initialize() on an existing root with the right signature
\* empties the root: the current view and every sealed snapshot are removed.
C20_InitializeEmptiesRoot ==
    (last.op = "initialize" /\ pre.root = "ok")
        => /\ last.result = "ok"
           /\ root = "ok"
           /\ dirs = EmptyStore
           /\ trees = EmptyTrees

C20_Witness ==
    /\ last.op = "initialize"
    /\ pre.root = "ok"
    /\ Sealed(pre.dirs) # {}
    /\ is_chroot_dir_opened(pre.dirs)
    /\ dirs = EmptyStore

-----------------------------------------------------------------------------
(* Properties of the construction of the pipeline *)

\* C27: when the build configuration is invalid (build cache enabled without
\* a host build-cache directory, or without dev-util/ccache in the install
\* list or the world set, or a package in both lists), construction on a
\* verified store fails with SettingsError, and whatever the store it fails
\* before the store is touched: no current view is opened, no snapshot is
\* sealed, and no pipeline exists.
C27_InvalidSettingsFailBeforeStore ==
    (last.op = "construct" /\ SettingsErrorRaised(last.cfg))
        => /\ verifyDir(pre.root) => last.result = "settings_error"
           /\ last.result \in {"settings_error", "assert_failed"}
           /\ progress = NoBuilder
           /\ dirs = pre.dirs
           /\ trees = pre.trees
           /\ CurrentOpen = is_chroot_dir_opened(pre.dirs)
           /\ Sealed(dirs) = Sealed(pre.dirs)

C27_Witness ==
    /\ last.op = "construct"
    /\ last.cfg.ccache
    /\ last.cfg.host_ccachedir
    /\ ~last.cfg.in_install
    /\ ~last.cfg.in_world
    /\ last.result = "settings_error"
    /\ dirs = EmptyStore

-----------------------------------------------------------------------------
(* Sessions: calls made on a WorkDirChrooter or a _Chrooter whose chroot   *)
(* directory is the open current view of a store.                          *)

\* the mount points the session's bind() goes through
SessionTargets(s) ==
    BaseTargets \o (IF s.kind = "_Chrooter" THEN BindTargets(s.cfg) ELSE <<>>)

InitSession ==
    /\ rollback = FALSE
    /\ root = "ok"
    /\ dirs = [EmptyStore EXCEPT ![CURRENT] = "dir"]
    /\ trees = EmptyTrees
    /\ progress = NoBuilder
    /\ sealed = 0
    /\ last = NoCall
    /\ pre = [progress |-> NoBuilder, root |-> root, dirs |-> dirs, trees |-> trees,
              last |-> NoCall]
    /\ chrooter \in
          {NewChrooter("WorkDirChrooter", NoSessionConfig, m) : m \in Machines}
          \cup {NewChrooter("_Chrooter", cfg, m) : cfg \in SessionConfigs, m \in Machines}
    /\ call = [NoSessionCall EXCEPT !.pre = chrooter]
    /\ calc = NoCalc

\* the object at the start of a call: the trace of the call before is dropped
Fresh == [chrooter EXCEPT !.log = <<>>]

SessionCall(op, fail, cmdOk, result) ==
    [op |-> op, fail |-> fail, cmdOk |-> cmdOk, result |-> result, pre |-> Fresh,
     prevOp |-> call.op, prevResult |-> call.result]

StoreIdle ==
    UNCHANGED <<rollback, root, dirs, trees, progress, sealed, last, pre, calc>>

\* m.bind(), with the statement that raises drawn from those it executes
SessionBind ==
    /\ \E fail \in Failures(SessionTargets(chrooter)) :
          LET r == IF chrooter.kind = "_Chrooter"
                   THEN Chrooter_bind(Fresh, fail)
                   ELSE WorkDirChrooter_bind(Fresh, fail)
          IN  /\ chrooter' = r.s
              /\ call' = SessionCall("bind", fail, FALSE, r.result)
    /\ StoreIdle

\* m.unbind()
SessionUnbind ==
    /\ LET r == IF chrooter.kind = "_Chrooter"
                THEN Chrooter_unbind(Fresh)
                ELSE WorkDirChrooter_unbind(Fresh)
       IN  /\ chrooter' = r.s
           /\ call' = SessionCall("unbind", NoFailure, FALSE, r.result)
    /\ StoreIdle

CommandOps == {"shell_call", "shell_test", "shell_exec", "interactive_shell"}

\* m.shell_call(env, cmd), m.shell_test(env, cmd), m.shell_exec(env, cmd),
\* m.interactive_shell(), the command succeeding or not
SessionCommand ==
    /\ \E op \in CommandOps, cmdOk \in BOOLEAN :
          LET r == CASE op = "shell_call" -> shell_call(Fresh, cmdOk)
                     [] op = "shell_test" -> shell_test(Fresh, cmdOk)
                     [] op = "shell_exec" -> shell_exec(Fresh, cmdOk)
                     [] op = "interactive_shell" -> interactive_shell(Fresh, cmdOk)
          IN  /\ chrooter' = r.s
              /\ call' = SessionCall(op, NoFailure, cmdOk, r.result)
    /\ StoreIdle

\* m.script_exec(scriptObj), the script succeeding or not
SessionScript ==
    /\ Len(chrooter.scriptDirList) < MaxScripts
    /\ \E fillOk \in BOOLEAN, cmdOk \in BOOLEAN :
          LET r == script_exec(Fresh, fillOk, cmdOk)
          IN  /\ chrooter' = r.s
              /\ call' = SessionCall("script_exec", NoFailure, cmdOk, r.result)
    /\ StoreIdle

NextSession == SessionBind \/ SessionUnbind \/ SessionCommand \/ SessionScript

SpecSession == InitSession /\ [][NextSession]_vars

-----------------------------------------------------------------------------
(* Properties of the sessions, stated over the last call, the object at its *)
(* start and the trace of what the call did.                                *)

\* the mount points of the entries of a trace that are of the given kind
TraceOf(what, log) ==
    LET q == SelectSeq(log, LAMBDA e : e[1] = what)
    IN  [i \in 1 .. Len(q) |-> q[i][2]]

\* the object without the trace of the last call
State(s) == [s EXCEPT !.log = <<>>]

Bound(s) == Len(s.mountList) > 0

BindFailed == call.op = "bind" /\ call.result = "failed"

\* C21: whatever statement of bind() fails, nothing that this bind() mounted
\* is still mounted below the chroot directory when it returns.
C21_FailedBindLeavesNothingMounted ==
    BindFailed => Range(chrooter.mounted) \subseteq Range(call.pre.mounted)

\* C22: after a bind() that failed at any position the session holds no mount
\* record and no script directory, and running the cleanup again changes
\* nothing.
C22_CleanupAfterFailedBindIsComplete ==
    BindFailed
        => /\ chrooter.mountList = <<>>
           /\ chrooter.bindMountList = <<>>
           /\ ~chrooter.hasBindMountList
           /\ chrooter.scriptDirList = <<>>
           /\ chrooter.scratch = {}
           /\ ~chrooter.resolv
           /\ State(WorkDirChrooter__unbind(chrooter)) = State(chrooter)
           /\ State(Chrooter_unbind(chrooter).s) = State(chrooter)

C22_Witness ==
    /\ BindFailed
    /\ chrooter.kind = "_Chrooter"
    /\ call.fail.at = "distfiles"
    /\ call.fail.phase = "mount"
    /\ TraceOf("umount", chrooter.log) = <<"log", "tmp", "dev", "sys", "proc">>

\* C23: unbind() called after a bind() that failed partway returns normally
\* and leaves the session unbound with no mount record.
C23_UnbindAfterFailedBindReturns ==
    (call.op = "unbind" /\ call.prevOp = "bind" /\ call.prevResult = "failed")
        => /\ call.result = "ok"
           /\ chrooter.mountList = <<>>
           /\ ~chrooter.hasBindMountList

\* C24: the unmounts of a teardown are the attachments in reverse order: for
\* unbind() of a bound session, the base mounts followed by the builder's
\* log, distfile, binary-package, build-cache and repository mounts, in
\* reverse; for a bind() that failed, the attachments it had recorded, in
\* reverse, and the teardown was run.
C24_TeardownReversesAttachments ==
    /\ (call.op = "unbind" /\ call.result = "ok")
           => /\ call.pre.mounted = SessionTargets(call.pre)
              /\ TraceOf("umount", chrooter.log) = Reverse(call.pre.mounted)
              /\ chrooter.mounted = <<>>
    /\ BindFailed
           => /\ TraceOf("umount", chrooter.log)
                    = Reverse(SelectSeq(TraceOf("mount", chrooter.log),
                                        LAMBDA t : ~(call.fail.phase = "rslave"
                                                        /\ call.fail.at = t)))
              /\ <<"rm", "resolv.conf">> \in Range(chrooter.log)

C24_Witness ==
    /\ call.op = "unbind"
    /\ call.result = "ok"
    /\ call.pre.cfg.host_distdir
    /\ ~call.pre.cfg.host_binpkgdir
    /\ call.pre.cfg.ccachedir
    /\ call.pre.cfg.repos = MaxRepos
    /\ Len(TraceOf("umount", chrooter.log)) = Len(BaseTargets) + 3 + MaxRepos

\* C25: shell_call, shell_test, shell_exec, script_exec and interactive_shell
\* on a session that is not bound (before bind(), after unbind(), after a
\* failed bind()) fail, and nothing is run in the chroot or created in it.
C25_CommandsRequireBoundSession ==
    (call.op \in CommandOps \cup {"script_exec"} /\ ~Bound(call.pre))
        => /\ call.result = "assert_failed"
           /\ chrooter = call.pre

C25_Witness ==
    /\ call.op = "script_exec"
    /\ call.prevOp = "bind"
    /\ call.prevResult = "failed"
    /\ call.result = "assert_failed"
    /\ call.pre.machine = detectArch

\* C26: a command that fails in a bound session does not unwind it: the mount
\* record and the mounts are as before, the session is still bound, and the
\* next command is executed.
C26_FailedCommandKeepsSession ==
    /\ call.result \in {"command_failed", "false"}
           => /\ Bound(chrooter)
              /\ chrooter.mountList = call.pre.mountList
              /\ chrooter.bindMountList = call.pre.bindMountList
              /\ chrooter.hasBindMountList = call.pre.hasBindMountList
              /\ chrooter.mounted = call.pre.mounted
              /\ chrooter.resolv = call.pre.resolv
    /\ (call.op \in CommandOps \cup {"script_exec"}
            /\ call.prevOp \in {"shell_call", "shell_test", "shell_exec", "script_exec"}
            /\ call.prevResult \in {"command_failed", "false"}
            /\ call.result # "fill_failed")
           => /\ call.result \notin {"assert_failed", "none"}
              /\ call.cmdOk => call.result = "ok"
              /\ <<"chroot", IF call.op = "script_exec" THEN "shell_exec" ELSE call.op>>
                    \in Range(chrooter.log)

C26_Witness ==
    /\ call.op = "shell_exec"
    /\ call.prevOp = "shell_call"
    /\ call.prevResult = "command_failed"
    /\ call.result = "ok"
    /\ chrooter.kind = "_Chrooter"

\* what unbind() does to the mounts recorded at its start: the builder's
\* mounts, then the base mounts, each list in reverse
UmountTrace(s) ==
    [i \in 1 .. Len(s.mounted) |-> <<"umount", Reverse(s.mounted)[i]>>]

ScriptDirTrace(s) ==
    [i \in 1 .. Len(s.scriptDirList) |->
        <<"rm", ScriptDir(Reverse(s.scriptDirList)[i])>>]

\* C30 as claimed: unbind() first unmounts every recorded mount in reverse
\* order, then removes the script directories the session created, then
\* removes the copied resolv.conf.
C30_UnbindScriptsBeforeResolvConf ==
    (call.op = "unbind" /\ call.result = "ok")
        => chrooter.log = UmountTrace(call.pre) \o ScriptDirTrace(call.pre)
                            \o <<<<"rm", "resolv.conf">>>>

\* C30 as amended: unbind() first unmounts every recorded mount in reverse
\* order, then removes the copied resolv.conf, then removes the script
\* directories the session created, the last created first.
C30_UnbindResolvConfBeforeScripts ==
    (call.op = "unbind" /\ call.result = "ok")
        => /\ chrooter.log = UmountTrace(call.pre) \o <<<<"rm", "resolv.conf">>>>
                               \o ScriptDirTrace(call.pre)
           /\ chrooter.mounted = <<>>
           /\ ~chrooter.resolv
           /\ chrooter.scratch = {}

C30_Witness ==
    /\ call.op = "unbind"
    /\ call.result = "ok"
    /\ call.pre.scriptDirList = <<0, 1>>
    /\ call.pre.resolv
    /\ chrooter.kind = "_Chrooter"

-----------------------------------------------------------------------------
(* The derivations, applied to every input within the bounds *)

OnlyCalc ==
    UNCHANGED <<rollback, root, dirs, trees, progress, sealed, last, pre, chrooter,
                call>>

InitIdle ==
    /\ rollback = FALSE
    /\ root = "absent"
    /\ dirs = EmptyStore
    /\ trees = EmptyTrees
    /\ progress = NoBuilder
    /\ sealed = 0
    /\ last = NoCall
    /\ pre = [progress |-> NoBuilder, root |-> root, dirs |-> dirs, trees |-> trees,
              last |-> NoCall]
    /\ chrooter = NoChrooter
    /\ call = NoSessionCall

InitParallelism ==
    /\ InitIdle
    /\ calc \in {[NoCalc EXCEPT !.power = power] : power \in ComputingPowers}

\* the parallelism parameters of action_install_kernel
DeriveKernelParallelism ==
    /\ calc.fn = "none"
    /\ calc' = [calc EXCEPT !.fn = "action_install_kernel",
                            !.out = action_install_kernel(calc.power)]
    /\ OnlyCalc

\* the parallelism parameters of write_make_conf
DeriveMakeConfParallelism ==
    /\ calc.fn = "none"
    /\ calc' = [calc EXCEPT !.fn = "write_make_conf",
                            !.out = write_make_conf(calc.power)]
    /\ OnlyCalc

\* one build: action_init_confdir writes make.conf and action_install_kernel
\* runs the kernel build tool, both from the same host_computing_power
DeriveBuildParallelism ==
    /\ calc.fn = "none"
    /\ calc' = [calc EXCEPT !.fn = "build",
                            !.out = [make |-> write_make_conf(calc.power),
                                     kernel |-> action_install_kernel(calc.power)]]
    /\ OnlyCalc

NextParallelism ==
    DeriveKernelParallelism \/ DeriveMakeConfParallelism \/ DeriveBuildParallelism

SpecParallelism == InitParallelism /\ [][NextParallelism]_vars

\* _TargetSettings.__init__ has accepted install_list and world_set: they
\* share no element
InitInstallList ==
    /\ InitIdle
    /\ calc \in {[NoCalc EXCEPT !.install_list = l[1], !.world_set = l[2],
                                !.installed = inst] :
                    l \in {x \in PackageLists \X PackageLists :
                              Range(x[1]) \cap Range(x[2]) = {}},
                    inst \in SUBSET Packages}

\* the install list of action_update_world_set
DeriveInstallList ==
    /\ calc.fn = "none"
    /\ calc' = [calc EXCEPT !.fn = "action_update_world_set",
                            !.out = action_update_world_set(
                                        calc.install_list, calc.world_set,
                                        calc.installed)]
    /\ OnlyCalc

SpecInstallList == InitInstallList /\ [][DeriveInstallList]_vars

\* C28: at the lowest cooling level the job count and the load ceiling are
\* both 1 whatever the core count; otherwise with memory at or above the
\* threshold the job count is cores + 2 and the load ceiling is cores, and
\* with memory below it the job count is cores and the load ceiling is
\* cores - 1 but never below 1.
C28_ParallelismDerivation ==
    calc.fn \in {"action_install_kernel", "write_make_conf"}
        => LET cores == calc.power.cpu_core_count
               jobs == IF calc.fn = "write_make_conf"
                       THEN calc.out.jobcountMake ELSE calc.out.tj
               load == IF calc.fn = "write_make_conf"
                       THEN calc.out.loadavg ELSE calc.out.tl
           IN  /\ calc.power.cooling_level = 1 => jobs = 1 /\ load = 1
               /\ (calc.power.cooling_level > 1
                      /\ calc.power.memory_gib >= HighMemoryGiB)
                     => jobs = cores + 2 /\ load = cores
               /\ (calc.power.cooling_level > 1
                      /\ calc.power.memory_gib < HighMemoryGiB)
                     => /\ jobs = cores
                        /\ load = (IF cores = 1 THEN 1 ELSE cores - 1)
               /\ load >= 1
               /\ (calc.power.cooling_level > 1 /\ cores = 8)
                     => <<jobs, load>> = (IF calc.power.memory_gib >= HighMemoryGiB
                                          THEN <<10, 8>> ELSE <<8, 7>>)

C28_Witness ==
    /\ calc.fn = "action_install_kernel"
    /\ calc.power.cooling_level > 1
    /\ calc.power.memory_gib < HighMemoryGiB
    /\ calc.power.cpu_core_count = 1
    /\ calc.out.tl = 1

\* C29: the install list is the declared install packages followed by the
\* world-set packages, each kept only if not installed; when dev-util/ccache
\* is in that list it is first in the result, and the other packages are in
\* the result in the order they had.
C29_InstallListOrdering ==
    calc.fn = "action_update_world_set"
        => LET base == SelectSeq(calc.install_list \o calc.world_set,
                                 LAMBDA pkg : pkg \notin calc.installed)
               others(q) == SelectSeq(q, LAMBDA pkg : pkg # ccache)
           IN  /\ Len(calc.out) = Len(base)
               /\ others(calc.out) = others(base)
               /\ ccache \in Range(base) => calc.out[1] = ccache
               /\ ccache \notin Range(base) => calc.out = base

C29_Witness ==
    /\ calc.fn = "action_update_world_set"
    /\ calc.world_set = <<"sys-apps/foo", ccache>>
    /\ calc.install_list = <<"net-misc/curl">>
    /\ calc.out = <<ccache, "net-misc/curl", "sys-apps/foo">>

-----------------------------------------------------------------------------
(* Properties of the script directories *)

\* C31: every script execution of a bound session has a directory of its
\* own, recorded as soon as it is made, so that a failure while it is filled
\* leaves it recorded; after unbind() every script directory the session made
\* is removed and none is recorded.
C31_ScriptDirsArePrivateAndRemoved ==
    /\ Cardinality(Range(chrooter.scriptDirList)) = Len(chrooter.scriptDirList)
    /\ Range(chrooter.scriptDirList) = chrooter.scratch
    /\ (call.op = "script_exec" /\ call.result # "assert_failed")
           => LET i == chrooter.scriptDirList[Len(chrooter.scriptDirList)]
              IN  /\ Len(chrooter.scriptDirList) = Len(call.pre.scriptDirList) + 1
                  /\ i \notin call.pre.scratch
                  /\ i \notin Range(call.pre.scriptDirList)
                  /\ i \in chrooter.scratch
    /\ (call.op = "unbind" /\ call.result = "ok")
           => chrooter.scratch = {} /\ chrooter.scriptDirList = <<>>

C31_Witness ==
    /\ call.op = "unbind"
    /\ call.result = "ok"
    /\ call.prevOp = "script_exec"
    /\ call.prevResult = "fill_failed"
    /\ Cardinality(call.pre.scratch) = 2
    /\ chrooter.scratch = {}

-----------------------------------------------------------------------------
(* Properties that relate two derivations *)

\* C32: for every core count, memory size and cooling level, the make job
\* count and the load ceiling written to make.conf equal the job count and
\* the load ceiling given to the kernel build tool.
C32_SameParallelismInBothPlaces ==
    calc.fn = "build"
        => /\ calc.out.make.jobcountMake = calc.out.kernel.tj
           /\ calc.out.make.loadavg = calc.out.kernel.tl

C32_Witness ==
    /\ calc.fn = "build"
    /\ calc.power.cooling_level > 1
    /\ calc.power.memory_gib >= HighMemoryGiB
    /\ calc.out.kernel.tj = calc.power.cpu_core_count + 2
    /\ calc.out.make.jobcountEmerge = calc.power.cpu_core_count

-----------------------------------------------------------------------------
(* Properties that relate the marker and the store *)

\* C34: while a pipeline exists, after its construction and after every call
\* of an action, no current view exists and the canonical name of the marker
\* (two digits, dash, step name) is a sealed snapshot, from which the next
\* legal action can open its view.
C34_StoreQuiescentAndNamedByMarker ==
    progress # NoBuilder
        => /\ ~CurrentOpen
           /\ getChrootDirName(progress) \in Sealed(dirs)
           /\ getChrootDirName(progress) = Fmt02d(progress) \o "-" \o StepName(progress)
           /\ open_chroot_dir(dirs, getChrootDirName(progress), rollback).ok

C34_Witness ==
    /\ progress = STEP_INIT
    /\ last.op = "construct"
    /\ last.result = "ok"
    /\ ~is_chroot_dir_opened(pre.dirs)
    /\ dirs["01-STEP_INIT"] = "dir"

====
